---------------------------- MODULE Spec2Model ----------------------------
(***************************************************************************)
(* https_dns_proxy: the UDP-to-HTTPS DNS proxy of src/main.c.              *)
(*                                                                         *)
(* The process is a single-threaded libev reactor.  Each handler of main.c *)
(* (dns_server_cb, https_resp_cb, dns_poll_cb, sigint_cb, sigpipe_cb) runs *)
(* to completion and is one action here; main() is four steps up to ev_run *)
(* and one after it.  The heap is modelled explicitly:                     *)
(* request_t contexts and curl_slist override lists live in cells that are *)
(* allocated, freed and possibly reused, so that leaks, dangling pointers  *)
(* and address reuse are visible.                                          *)
(*                                                                         *)
(* Strings are sequences of one-character strings, so that formatting,     *)
(* escaping and truncation are computed and not assumed.                   *)
(*                                                                         *)
(* dns_server.c, https_client.c, dns_poller.c, json_to_dns.c, options.c    *)
(* and logging.h are separate translation units; what the handlers of      *)
(* main.c need of them is modelled from the design document and said so.   *)
(***************************************************************************)
EXTENDS Integers, Sequences, FiniteSets, TLC

(***************************************************************************)
(* Bounds of the model.                                                    *)
(***************************************************************************)
\* queries received during one run
MaxQueries == 2
\* bootstrap poller callbacks during one run
MaxPolls == 2

(***************************************************************************)
(* Program constants.                                                      *)
(***************************************************************************)
NULL == 0
\* &dns_server, the one server main() initialises
TheDnsServer == 1
\* char url[1500]
UrlSize == 1500
\* static char buf[200] for extra_request_args
ExtraSize == 200
\* const int obuf_size = 1500
obuf_size == 1500
\* uint16_t flags
FlagBits == 16
\* 1 << 4
CdShift == 4

(***************************************************************************)
(* Strings.                                                                *)
(***************************************************************************)
Min(a, b) == IF a < b THEN a ELSE b

\* snprintf(dst, size, ...): at most size - 1 characters are stored
Snprintf(s, size) == SubSeq(s, 1, Min(Len(s), size - 1))

Digits == <<"0", "1", "2", "3", "4", "5", "6", "7", "8", "9">>

\* "%d" of a non-negative int
RECURSIVE Dec(_)
Dec(n) == IF n < 10 THEN <<Digits[n + 1]>> ELSE Dec(n \div 10) \o <<Digits[(n % 10) + 1]>>

\* s[i..] starts with p
StartsAt(s, i, p) ==
  /\ i + Len(p) - 1 <= Len(s)
  /\ \A k \in 1..Len(p) : s[i + k - 1] = p[k]

Contains(s, p) == \E i \in 1..Len(s) : StartsAt(s, i, p)

\* index of the first c in s at or after i, Len(s) + 1 when there is none
RECURSIVE IndexFrom(_, _, _)
IndexFrom(s, i, c) ==
  IF i > Len(s) THEN Len(s) + 1
  ELSE IF s[i] = c THEN i
  ELSE IndexFrom(s, i + 1, c)

S_UrlPrefix == <<"h","t","t","p","s",":","/","/","d","n","s",".","g","o","o","g","l","e",".","c","o","m","/","r","e","s","o","l","v","e","?","n","a","m","e","=">>
S_Type == <<"&","t","y","p","e","=">>
S_Cd == <<"&","c","d","=","t","r","u","e">>
S_Edns == <<"&","e","d","n","s","_","c","l","i","e","n","t","_","s","u","b","n","e","t","=">>
S_PollPrefix == <<"d","n","s",".","g","o","o","g","l","e",".","c","o","m",":","4","4","3",":">>
S_Scheme == <<"h","t","t","p","s",":","/","/">>

(***************************************************************************)
(* curl_escape (libcurl): every byte that is not unreserved                *)
(* (A-Z a-z 0-9 - . _ ~) becomes %XX.                                      *)
(***************************************************************************)
Reserved == {"&", "=", "/", "?", ":", " ", "%"}

PercentCode(c) ==
  CASE c = "&" -> <<"%", "2", "6">>
    [] c = "=" -> <<"%", "3", "D">>
    [] c = "/" -> <<"%", "2", "F">>
    [] c = "?" -> <<"%", "3", "F">>
    [] c = ":" -> <<"%", "3", "A">>
    [] c = " " -> <<"%", "2", "0">>
    [] c = "%" -> <<"%", "2", "5">>

RECURSIVE curl_escape(_)
curl_escape(name) ==
  IF name = <<>> THEN <<>>
  ELSE (IF Head(name) \in Reserved THEN PercentCode(Head(name)) ELSE <<Head(name)>>)
       \o curl_escape(Tail(name))

(***************************************************************************)
(* dns_server_cb, lines 94-101: the URL.                                   *)
(***************************************************************************)
RECURSIVE BitAnd(_, _)
BitAnd(a, b) ==
  IF a = 0 \/ b = 0 THEN 0
  ELSE (a % 2) * (b % 2) + 2 * BitAnd(a \div 2, b \div 2)

\* a plausible slip: the wrong bit of the flags word
cd_bit_wrong_bit(flags) == BitAnd(flags, 2 ^ (CdShift + 1))

\* int cd_bit = flags & (1 << 4);
cd_bit(flags) == BitAnd(flags, 2 ^ CdShift)

BuildUrl(name, type, flags, extra) ==
  Snprintf(S_UrlPrefix \o curl_escape(name) \o S_Type \o Dec(type)
             \o (IF cd_bit(flags) # 0 THEN S_Cd ELSE <<>>) \o extra,
           UrlSize - 1)

\* main(), lines 150-158
ExtraRequestArgs(edns_client_subnet) ==
  IF edns_client_subnet # <<>>
  THEN Snprintf(S_Edns \o edns_client_subnet, ExtraSize - 1)
  ELSE <<>>

\* the host of "https://<host>/..."
UrlHost(url) ==
  LET from == Len(S_Scheme) + 1
  IN  SubSeq(url, from, IndexFrom(url, from, "/") - 1)

\* the host of a CURLOPT_RESOLVE entry "<host>:<port>:<address>"
EntryHost(entry) == SubSeq(entry, 1, IndexFrom(entry, 1, ":") - 1)

\* ares_inet_ntop(AF_INET, ...): dotted quad of four octets
ares_inet_ntop(addr) ==
  Dec(addr[1]) \o <<".">> \o Dec(addr[2]) \o <<".">> \o Dec(addr[3]) \o <<".">> \o Dec(addr[4])

\* dns_poll_cb, lines 113-116: "dns.google.com:443:" followed by the address
\* (a dotted quad is at most 15 characters, the 109 left in buf[128] suffice)
PollEntry(addr) == S_PollPrefix \o ares_inet_ntop(addr)

(***************************************************************************)
(* Inputs.                                                                 *)
(***************************************************************************)
N_Example == <<"e","x",".","c","o","m">>
\* a name whose labels hold URL metacharacters
N_Hostile == <<"&","c","d","=","t","r","u","e",".","x">>
H_Google == <<"d","n","s",".","g","o","o","g","l","e",".","c","o","m">>
H_Other == <<"d","o","h",".","e","x",".","n","e","t">>
Subnet1 == <<"1",".","2",".","3",".","0","/","2","4">>

\* struct Options (options.h): the fields main.c reads
Configs ==
  { [http_dns_server |-> H_Google, edns_client_subnet |-> Subnet1,
     daemonize |-> FALSE],
    [http_dns_server |-> H_Other,  edns_client_subnet |-> <<>>,
     daemonize |-> TRUE] }

ZeroAddr == "0.0.0.0:0"

\* the decoded queries the DNS server hands to dns_server_cb
Queries ==
  { [tx_id |-> 4660,  flags |-> 256, name |-> N_Example, type |-> 1,  addr |-> "10.0.0.1:5353"],
    [tx_id |-> 65535, flags |-> 272, name |-> N_Hostile, type |-> 28, addr |-> "10.0.0.2:40000"] }

\* the addresses the bootstrap resolver delivers
PollAddrs == { <<8, 8, 8, 8>>, <<216, 58, 0, 14>> }

\* what a completion delivers: no body, or a body with the size its answer
\* encodes to
NullBuf == [isnull |-> TRUE, wellformed |-> FALSE, encsize |-> 0]
Bodies ==
  { [isnull |-> FALSE, wellformed |-> FALSE, encsize |-> 0],
    [isnull |-> FALSE, wellformed |-> TRUE,  encsize |-> 45],
    [isnull |-> FALSE, wellformed |-> TRUE,  encsize |-> obuf_size],
    [isnull |-> FALSE, wellformed |-> TRUE,  encsize |-> obuf_size + 1] }
Bufs == {NullBuf} \cup Bodies

(***************************************************************************)
(* State.                                                                  *)
(***************************************************************************)
VARIABLES
  pc,                  \* where main() is: "loop" is ev_run
  argv_ok,             \* whether the command line is one options_parse_args accepts
  mainlog,             \* the calls main() has made to set up and release resources
  cred,                \* the credentials the process runs with
  exit_code,           \* <<>> while the process runs, <<code>> once main is left
  after_sigpipe,       \* history: the handler that ran last was sigpipe_cb
  calls,               \* history: request_t allocations, fetches, responds
  opt,                 \* struct Options
  extra_request_args,  \* app.extra_request_args
  poller_host,         \* the hostname dns_poller_init was given
  app_resolv,          \* app.resolv: a curl_slist pointer or NULL
  slists,              \* heap: curl_slist cells
  reqs,                \* heap: request_t cells
  fetches,             \* https_client: the fetches in flight
  sent,                \* dns_server_respond: the UDP replies sent
  queries,             \* history: the queries received, in order
  done,                \* history: the completions delivered
  polls,               \* history: the number of dns_poll_cb calls
  last_built,          \* history: what the latest dns_poll_cb installed
  last_addr,           \* history: the address the latest dns_poll_cb got
  url_in,              \* URL check: the inputs of BuildUrl
  url_out              \* URL check: its result

vars == <<pc, argv_ok, mainlog, cred, exit_code, after_sigpipe, calls,
          opt, extra_request_args, poller_host, app_resolv, slists, reqs,
          fetches, sent, queries, done, polls, last_built, last_addr,
          url_in, url_out>>

hist == <<queries, done, polls, last_built, last_addr, calls>>
mainv == <<argv_ok, mainlog, cred, exit_code>>
urlv == <<url_in, url_out>>
conf == <<opt, extra_request_args, poller_host>>

\* The heap has room for one request_t per query, so that memory runs out
\* only when calloc is made to fail.
ReqAddrs == 1..MaxQueries

\* dns_poll_cb frees the old list before it appends the new one and nothing
\* else allocates a list, so at most one list is live.  Two addresses let
\* the new list land on the address just freed or on another one, which is
\* every way a pointer kept to an old list can come to dangle or to alias.
ListAddrs == {1, 2}

\* calloc's choice among the free request_t cells.  No pointer to a freed
\* request_t is kept anywhere (a fetch leaves the in-flight set when its
\* callback runs), so the free cells are interchangeable and the first one
\* stands for all of them.
FirstFree == CHOOSE a \in ReqAddrs :
               ~reqs[a].alive /\ \A b \in ReqAddrs : ~reqs[b].alive => a <= b
CallocResults ==
  {NULL} \cup (IF \E a \in ReqAddrs : ~reqs[a].alive THEN {FirstFree} ELSE {})

\* calloc'ed and freed memory
ZeroReq == [alive |-> FALSE, tx_id |-> 0, raddr |-> ZeroAddr, dns_server |-> NULL]
FreeList == [alive |-> FALSE, items |-> <<>>]

\* When the process ends, by a crash, by a fatal log line or by returning
\* from main, its memory is gone: the heap, the fetches in flight and
\* app.resolv with it.  What it did before (the history and the replies
\* sent) stays.
ProcessEnds(how) ==
  /\ pc' = how
  /\ app_resolv' = NULL
  /\ slists' = [a \in ListAddrs |-> FreeList]
  /\ reqs' = [a \in ReqAddrs |-> ZeroReq]
  /\ fetches' = {}

NoUrlIn == [name |-> <<>>, type |-> 0, flags |-> 0, extra |-> <<>>]

\* stdlib.h, and line 127: exit(1)
EXIT_SUCCESS == 0
ExitUsage == 1

NoCalls == [alloc |-> 0, fetch |-> 0, respond |-> 0]

\* the state when main() is entered; opt is what options_parse_args makes
\* of the command line when it accepts it
Init ==
  /\ pc = "start"
  /\ argv_ok \in BOOLEAN
  /\ mainlog = <<>>
  /\ cred = "initial"
  /\ exit_code = <<>>
  /\ after_sigpipe = FALSE
  /\ calls = NoCalls
  /\ opt \in Configs
  /\ extra_request_args = <<>>
  /\ poller_host = <<>>
  /\ app_resolv = NULL
  /\ slists = [a \in ListAddrs |-> FreeList]
  /\ reqs = [a \in ReqAddrs |-> ZeroReq]
  /\ fetches = {}
  /\ sent = {}
  /\ queries = <<>>
  /\ done = {}
  /\ polls = 0
  /\ last_built = NULL
  /\ last_addr = <<>>
  /\ url_in = NoUrlIn
  /\ url_out = <<>>

(***************************************************************************)
(* Collaborators that are not in the available source.                     *)
(***************************************************************************)
\* logging.h, FLOG: a fatal log line ends the process.  (Were it to return,
\* lines 69 and 71 would go on to use the NULL pointer just tested.)
FLOG == "aborted"

\* json_to_dns(tx_id, json, obuf, obuf_size): the length of the encoded
\* response, whose header carries tx_id, or a value <= 0 when the body is
\* malformed or its encoding does not fit obuf_size bytes
json_to_dns(tx_id, body, size) ==
  IF body.wellformed /\ body.encsize <= size
  THEN { [r |-> body.encsize, id |-> tx_id] }
  ELSE { [r |-> -1, id |-> tx_id], [r |-> 0, id |-> tx_id] }

\* https_client_fetch(client, url, resolv, cb, data): a fetch in flight; it
\* holds the pointers it was given.  The g_ fields are history: the query
\* that started it and what the override was when it was issued.
https_client_fetch(url, resolv, data, qid) ==
  [ url |-> url, resolv |-> resolv, data |-> data,
    g_qid |-> qid,
    g_items |-> IF resolv = NULL THEN <<>> ELSE slists[resolv].items ]

\* curl_slist_free_all (libcurl)
curl_slist_free_all(heap, list) ==
  IF list = NULL THEN heap ELSE [heap EXCEPT ![list] = FreeList]

(***************************************************************************)
(* dns_server_cb, lines 86-109.                                            *)
(***************************************************************************)
\* a plausible slip: the transaction id is never stored
NewRequest_no_tx_id(dns_server, addr, tx_id) ==
  [alive |-> TRUE, tx_id |-> 0, raddr |-> addr, dns_server |-> dns_server]

\* lines 104-107: the calloc'ed context and its three assignments
NewRequest(dns_server, addr, tx_id) ==
  [alive |-> TRUE, tx_id |-> tx_id, raddr |-> addr, dns_server |-> dns_server]

\* a plausible slip: the override captured once at startup, not app->resolv
FetchResolv_startup(resolv) == NULL

\* a plausible slip: a placeholder list passed while none is installed
FetchResolv_placeholder(resolv) == IF resolv = NULL THEN CHOOSE a \in ListAddrs : TRUE ELSE resolv

\* line 108: the override passed to https_client_fetch is app->resolv
FetchResolv(resolv) == resolv

\* req is what calloc returned: a free cell, or NULL when out of memory
dns_server_cb(q, req) ==
  /\ pc = "loop"
  /\ Len(queries) < MaxQueries
  /\ IF req = NULL
     THEN \* line 105 writes through the NULL pointer
          /\ ProcessEnds("crashed")
          /\ queries' = Append(queries, q)
          /\ UNCHANGED calls
     ELSE /\ queries' = Append(queries, q)
          /\ calls' = [calls EXCEPT !.alloc = @ + 1, !.fetch = @ + 1]
          /\ reqs' = [reqs EXCEPT ![req] = NewRequest(TheDnsServer, q.addr, q.tx_id)]
          /\ fetches' = fetches \cup
               { https_client_fetch(
                   BuildUrl(q.name, q.type, q.flags, extra_request_args),
                   FetchResolv(app_resolv), req, Len(queries) + 1) }
          /\ UNCHANGED <<pc, app_resolv, slists>>
  /\ after_sigpipe' = FALSE
  /\ UNCHANGED <<mainv, conf, sent, done, polls, last_built, last_addr, urlv>>

(***************************************************************************)
(* https_resp_cb, lines 56-84.                                             *)
(***************************************************************************)
\* a plausible slip: one static context shared by all requests
req_of_data_static(data) == IF data = NULL THEN NULL ELSE 1

\* line 61: request_t *req = (request_t *)data;
req_of_data(data) == data

\* line 58: if (buf == NULL)
NoBody(buf) == buf.isnull

\* a plausible slip: a failure answered with a 12-byte error response
SentAfterNoBody_servfail(s, req, qid) ==
  s \cup { [ dns_server |-> req.dns_server, raddr |-> req.raddr,
              id |-> req.tx_id, len |-> 12, g_qid |-> qid ] }

\* lines 58-60: return, nothing is sent
SentAfterNoBody(s, req, qid) == s

\* a plausible slip: only negative results taken as failures
ConversionFailed_negative(r) == r < 0

\* lines 76-77: (r = json_to_dns(...)) <= 0
ConversionFailed(r) == r <= 0

\* line 80: dns_server_respond(req->dns_server, req->raddr, obuf, r);
\* id is the transaction id in obuf's header, g_qid is history
Reply(req, id, r, qid) ==
  [ dns_server |-> req.dns_server, raddr |-> req.raddr, id |-> id,
    len |-> r, g_qid |-> qid ]

\* history of one completion: the query, whether a body came, whether
\* json_to_dns ran and what it returned
Completion(f, buf, ran, r) ==
  [qid |-> f.g_qid, body |-> ~buf.isnull, ran |-> ran, r |-> r]

\* the completion of fetch f with buf; calloc_ok: line 65 got its memory
https_resp_cb(f, buf, calloc_ok) ==
  /\ pc = "loop"
  /\ f \in fetches
  /\ LET req == req_of_data(f.data)
     IN  IF NoBody(buf)
         THEN \* line 59: return
              /\ fetches' = fetches \ {f}
              /\ done' = done \cup {Completion(f, buf, FALSE, 0)}
              /\ sent' = SentAfterNoBody(sent, reqs[f.data], f.g_qid)
              /\ UNCHANGED <<pc, reqs, app_resolv, slists, calls>>
         ELSE IF req = NULL \/ ~calloc_ok
         THEN \* lines 63 and 67
              /\ ProcessEnds(FLOG)
              /\ UNCHANGED <<done, sent, calls>>
         ELSE \E res \in json_to_dns(reqs[req].tx_id, buf, obuf_size) :
              /\ fetches' = fetches \ {f}
              /\ sent' = IF ConversionFailed(res.r) THEN sent
                         ELSE sent \cup {Reply(reqs[req], res.id, res.r, f.g_qid)}
              /\ calls' = IF ConversionFailed(res.r) THEN calls
                          ELSE [calls EXCEPT !.respond = @ + 1]
              /\ reqs' = [reqs EXCEPT ![req] = ZeroReq]
              /\ done' = done \cup {Completion(f, buf, TRUE, res.r)}
              /\ UNCHANGED <<pc, app_resolv, slists>>
  /\ after_sigpipe' = FALSE
  /\ UNCHANGED <<mainv, conf, queries, polls, last_built, last_addr, urlv>>

(***************************************************************************)
(* dns_poll_cb, lines 111-120.                                             *)
(***************************************************************************)
\* a plausible slip: an installed list is kept, the new one dropped
Install_keep_old(old, new) == IF old = NULL THEN new ELSE old

\* line 119: *resolv = curl_slist_append(NULL, buf);
Install(old, new) == new

\* list is what curl_slist_append returned: a free cell, or NULL
dns_poll_cb(addr, list) ==
  /\ pc = "loop"
  /\ polls < MaxPolls
  /\ LET freed == curl_slist_free_all(slists, app_resolv)
     IN  /\ list # NULL => ~freed[list].alive
         /\ slists' = IF list = NULL THEN freed
                      ELSE [freed EXCEPT ![list] =
                              [alive |-> TRUE, items |-> <<PollEntry(addr)>>]]
  /\ app_resolv' = Install(app_resolv, list)
  /\ polls' = polls + 1
  /\ last_built' = list
  /\ last_addr' = addr
  /\ after_sigpipe' = FALSE
  /\ UNCHANGED <<pc, mainv, conf, reqs, fetches, sent, queries, done, calls,
                 urlv>>

(***************************************************************************)
(* main() up to ev_run, lines 122-183.                                     *)
(***************************************************************************)
\* options_parse_args (options.h): 0 when the command line is accepted
options_parse_args(ok) == IF ok THEN 0 ELSE 0 - 1

\* setgid and setuid: 0, or -1 when the call fails
SyscallResults == {0, 0 - 1}

\* a plausible slip: the result of options_parse_args is not looked at
ParseFailed_ignored(rc) == FALSE

\* line 125: if (options_parse_args(&opt, argc, argv))
ParseFailed(rc) == rc # 0

\* lines 123-128: a command line that does not parse prints the usage and
\* exits with 1
main_parse_args ==
  /\ pc = "start"
  /\ IF ParseFailed(options_parse_args(argv_ok))
     THEN /\ ProcessEnds("exited")
          /\ exit_code' = <<ExitUsage>>
          /\ mainlog' = Append(mainlog, "options_show_usage")
     ELSE /\ pc' = "parsed"
          /\ UNCHANGED <<exit_code, mainlog, app_resolv, slists, reqs, fetches>>
  /\ UNCHANGED <<argv_ok, cred, after_sigpipe, conf, sent, hist, urlv>>

\* lines 130-162, in order: logging, libcurl, the default loop, the HTTPS
\* client, app.resolv and app.extra_request_args, the DNS server (which
\* binds the UDP socket)
InitSteps ==
  << "logging_init", "curl_global_init", "ev_default_loop",
     "https_client_init", "dns_server_init" >>

main_init ==
  /\ pc = "parsed"
  /\ pc' = "bound"
  /\ mainlog' = mainlog \o InitSteps
  /\ app_resolv' = NULL
  /\ extra_request_args' = ExtraRequestArgs(opt.edns_client_subnet)
  /\ UNCHANGED <<argv_ok, cred, exit_code, after_sigpipe, opt, poller_host,
                 slists, reqs, fetches, sent, hist, urlv>>

\* a plausible slip: the results of setgid and setuid are not looked at
CallFailed_ignored(rc) == FALSE

\* lines 165 and 167: if (setgid(opt.gid)), if (setuid(opt.uid))
CallFailed(rc) == rc # 0

\* lines 164-171: with opt.daemonize, setgid, then setuid, each fatal when
\* it fails, then daemon(0, 0), whose result is not looked at.  A call that
\* failed has not changed the credentials.
main_drop_privileges(gid_rc, uid_rc) ==
  /\ pc = "bound"
  /\ IF ~opt.daemonize
     THEN /\ pc' = "ready"
          /\ UNCHANGED <<mainlog, cred, app_resolv, slists, reqs, fetches>>
     ELSE IF CallFailed(gid_rc)
     THEN /\ ProcessEnds(FLOG)
          /\ mainlog' = mainlog \o <<"setgid">>
          /\ UNCHANGED cred
     ELSE IF CallFailed(uid_rc)
     THEN /\ ProcessEnds(FLOG)
          /\ mainlog' = mainlog \o <<"setgid", "setuid">>
          /\ cred' = IF gid_rc = 0 THEN "gid_set" ELSE cred
     ELSE /\ pc' = "ready"
          /\ mainlog' = mainlog \o <<"setgid", "setuid", "daemon">>
          /\ cred' = IF gid_rc = 0 /\ uid_rc = 0 THEN "dropped"
                     ELSE IF gid_rc = 0 THEN "gid_set"
                     ELSE IF uid_rc = 0 THEN "uid_set"
                     ELSE cred
          /\ UNCHANGED <<app_resolv, slists, reqs, fetches>>
  /\ UNCHANGED <<argv_ok, exit_code, after_sigpipe, conf, sent, hist, urlv>>

\* lines 173-183: the SIGPIPE and SIGINT watchers, then the poller for the
\* host in opt.http_dns_server; ev_run is next
WatcherSteps == << "sigpipe", "sigint", "dns_poller_init" >>

main_start_watchers ==
  /\ pc = "ready"
  /\ pc' = "loop"
  /\ mainlog' = mainlog \o WatcherSteps
  /\ poller_host' = opt.http_dns_server
  /\ UNCHANGED <<argv_ok, cred, exit_code, after_sigpipe, opt,
                 extra_request_args, app_resolv, slists, reqs, fetches, sent,
                 hist, urlv>>

(***************************************************************************)
(* Signals and the end of main().                                          *)
(***************************************************************************)
\* a plausible slip: SIGPIPE handled like SIGINT
SigpipeLeaves_breaks(at) == "after_loop"

\* lines 52-54: sigpipe_cb makes no ev_break, ev_run goes on
SigpipeLeaves(at) == at

\* lines 48-50: ev_break ends ev_run
sigint_cb ==
  /\ pc = "loop"
  /\ pc' = "after_loop"
  /\ after_sigpipe' = FALSE
  /\ UNCHANGED <<mainv, conf, app_resolv, slists, reqs, fetches, sent, hist,
                 urlv>>

\* lines 52-54: a log line, nothing else
sigpipe_cb ==
  /\ pc = "loop"
  /\ after_sigpipe' = TRUE
  /\ pc' = SigpipeLeaves(pc)
  /\ UNCHANGED <<mainv, conf, app_resolv, slists, reqs, fetches, sent, hist,
                 urlv>>

\* a plausible slip: the DNS server and the HTTPS client torn down first
CleanupSteps_poller_last ==
  << "curl_slist_free_all", "ev_signal_stop", "dns_server_cleanup",
     "https_client_cleanup", "dns_poller_cleanup", "ev_loop_destroy",
     "curl_global_cleanup", "logging_cleanup", "options_cleanup" >>

\* lines 187-199, in order
CleanupSteps ==
  << "dns_poller_cleanup", "curl_slist_free_all", "ev_signal_stop",
     "dns_server_cleanup", "https_client_cleanup", "ev_loop_destroy",
     "curl_global_cleanup", "logging_cleanup", "options_cleanup" >>

\* lines 187-201, straight-line code after ev_run returns: the poller is
\* cleaned up, app.resolv is freed (line 189), the signal watcher, the DNS
\* server and the HTTPS client are stopped, and main returns EXIT_SUCCESS.
\* Fetches still in flight get no callback.
main_cleanup ==
  /\ pc = "after_loop"
  /\ ProcessEnds("exited")
  /\ mainlog' = mainlog \o CleanupSteps
  /\ exit_code' = <<EXIT_SUCCESS>>
  /\ UNCHANGED <<argv_ok, cred, after_sigpipe, conf, sent, hist, urlv>>

\* What a completion can bring: no body, where line 65 is not reached; a
\* body that line 65 copies; a body for which the calloc of line 65 fails,
\* where what the body holds plays no part and one body stands for all.
Completions ==
  {[buf |-> NullBuf, calloc_ok |-> TRUE]}
    \cup {[buf |-> b, calloc_ok |-> TRUE] : b \in Bodies}
    \cup {[buf |-> CHOOSE b \in Bodies : TRUE, calloc_ok |-> FALSE]}

Next ==
  \/ main_parse_args
  \/ main_init
  \/ \E gid_rc \in SyscallResults, uid_rc \in SyscallResults :
       main_drop_privileges(gid_rc, uid_rc)
  \/ main_start_watchers
  \/ \E q \in Queries, req \in CallocResults : dns_server_cb(q, req)
  \/ \E f \in fetches, c \in Completions : https_resp_cb(f, c.buf, c.calloc_ok)
  \/ \E addr \in PollAddrs, list \in ListAddrs \cup {NULL} : dns_poll_cb(addr, list)
  \/ sigint_cb
  \/ sigpipe_cb
  \/ main_cleanup

Spec == Init /\ [][Next]_vars

(***************************************************************************)
(* The URL as a function of its inputs, over every flags word.             *)
(***************************************************************************)
UrlNames == {N_Example, N_Hostile}
UrlTypes == {1, 28}

InitUrl ==
  /\ pc = "url"
  /\ argv_ok = TRUE
  /\ mainlog = <<>>
  /\ cred = "initial"
  /\ exit_code = <<>>
  /\ after_sigpipe = FALSE
  /\ calls = NoCalls
  /\ opt \in Configs
  /\ extra_request_args = ExtraRequestArgs(opt.edns_client_subnet)
  /\ poller_host = opt.http_dns_server
  /\ app_resolv = NULL
  /\ slists = [a \in ListAddrs |-> FreeList]
  /\ reqs = [a \in ReqAddrs |-> ZeroReq]
  /\ fetches = {}
  /\ sent = {}
  /\ queries = <<>>
  /\ done = {}
  /\ polls = 0
  /\ last_built = NULL
  /\ last_addr = <<>>
  /\ url_in \in [name : UrlNames, type : UrlTypes, flags : 0..(2 ^ FlagBits - 1),
                 extra : {extra_request_args}]
  /\ url_out = <<>>

\* lines 95-101 applied to url_in
UrlStep ==
  /\ pc = "url"
  /\ url_out = <<>>
  /\ url_out' = BuildUrl(url_in.name, url_in.type, url_in.flags, url_in.extra)
  /\ UNCHANGED <<pc, mainv, after_sigpipe, conf, app_resolv, slists, reqs,
                 fetches, sent, hist, url_in>>

SpecUrl == InitUrl /\ [][UrlStep]_vars

(***************************************************************************)
(* Properties.                                                             *)
(***************************************************************************)
InLoop == pc = "loop"

RepliesTo(qid) == {r \in sent : r.g_qid = qid}

\* C1: every UDP reply sent carries the transaction id of the query whose
\* fetch produced it.
C1_ReplyCarriesQueryTxId ==
  \A r \in sent : r.id = queries[r.g_qid].tx_id

\* a reply to the query with transaction id 0xFFFF has been sent
C1_Witness ==
  \E r \in sent : queries[r.g_qid].tx_id = 65535 /\ r.id = 65535

\* C2: with several requests in flight and completions in any order, every
\* reply goes to the source address and through the server handle of the
\* query that started the fetch, with that query's transaction id, and the
\* fetches in flight hold distinct contexts, each the one of its own query.
C2_NoCrossTalk ==
  /\ \A r \in sent :
       /\ r.raddr = queries[r.g_qid].addr
       /\ r.dns_server = TheDnsServer
       /\ r.id = queries[r.g_qid].tx_id
  /\ InLoop =>
       /\ \A f \in fetches :
            /\ f.data # NULL
            /\ reqs[f.data].alive
            /\ reqs[f.data].tx_id = queries[f.g_qid].tx_id
            /\ reqs[f.data].raddr = queries[f.g_qid].addr
       /\ \A f, g \in fetches : f.data = g.data => f = g

\* the second query was answered while the first, a different client's with
\* a different transaction id, is still in flight
C2_Witness ==
  /\ Len(queries) = 2
  /\ queries[1].addr # queries[2].addr
  /\ queries[1].tx_id # queries[2].tx_id
  /\ RepliesTo(2) # {}
  /\ \E f \in fetches : f.g_qid = 1

\* C3: a completion without a body sends no reply for its query.
C3_NoReplyOnFailure ==
  \A c \in done : ~c.body => RepliesTo(c.qid) = {}

\* a completion without a body was delivered, another query got its reply
C3_Witness ==
  /\ \E c \in done : ~c.body
  /\ sent # {}

\* C4: between handlers the live request_t contexts are exactly the
\* contexts of the fetches not yet completed.
C4_LiveContextsAreInFlight ==
  InLoop => {a \in ReqAddrs : reqs[a].alive} = {f.data : f \in fetches}

\* C5: a fetch issued after dns_poll_cb has run is passed the list the
\* latest dns_poll_cb installed, and that list holds the address that call
\* was given.
C5_FetchUsesLatestOverride ==
  [][ \A f \in fetches' \ fetches :
        polls > 0 =>
          /\ f.resolv = last_built
          /\ last_built # NULL => f.g_items = <<PollEntry(last_addr)>> ]_vars

\* after two polls with different addresses, a fetch issued before the
\* second and one issued after it are in flight, each with the address
\* current when it was issued
C5_Witness ==
  /\ polls = 2
  /\ \E f, g \in fetches :
       /\ f.g_qid < g.g_qid
       /\ f.g_items # <<>>
       /\ g.g_items = <<PollEntry(last_addr)>>
       /\ f.g_items # g.g_items

\* C6: the list a fetch in flight was issued with stays allocated and
\* unchanged until the fetch completes.
C6_InFlightOverrideIntact ==
  \A f \in fetches :
    f.resolv # NULL =>
      /\ slists[f.resolv].alive
      /\ slists[f.resolv].items = f.g_items

C9_ReplyIffConverted ==
  \A c \in done :
    c.body =>
      /\ (RepliesTo(c.qid) # {}) <=> (c.ran /\ c.r > 0)
      /\ \A r \in RepliesTo(c.qid) : r.len = c.r /\ r.len <= obuf_size

\* one body filled the output buffer exactly and was answered, another
\* failed to convert with result 0 and was not
C9_Witness ==
  /\ \E c \in done : c.body /\ c.r = obuf_size /\ RepliesTo(c.qid) # {}
  /\ \E c \in done : c.body /\ c.ran /\ c.r = 0 /\ RepliesTo(c.qid) = {}

\* the URL carries a cd parameter
HasCdParam(url) ==
  \/ Contains(url, <<"&", "c", "d", "=">>)
  \/ Contains(url, <<"?", "c", "d", "=">>)

\* bit 4 (mask 0x0010) of a flags word
CdFlagSet(flags) == (flags \div 16) % 2 = 1

\* C10: for every 16-bit flags word, the URL holds "&cd=true" when bit 4 is
\* set and no cd parameter at all when it is clear.
C10_CdBitIffCdParam ==
  url_out # <<>> =>
    /\ CdFlagSet(url_in.flags) => Contains(url_out, S_Cd)
    /\ ~CdFlagSet(url_in.flags) => ~HasCdParam(url_out)

\* every bit but bit 4 set, and a name that spells "&cd=true": no parameter
C10_Witness ==
  /\ url_out # <<>>
  /\ url_in.flags = 65519
  /\ url_in.name = N_Hostile
  /\ ~HasCdParam(url_out)

S_Resolve == <<"/","r","e","s","o","l","v","e","?","n","a","m","e","=">>

\* the URL the interface description gives for query q under the
\* configuration: host, escaped name, type, then cd, then the client subnet
DescribedUrl(q) ==
  S_Scheme \o opt.http_dns_server \o S_Resolve \o curl_escape(q.name)
    \o S_Type \o Dec(q.type)
    \o (IF CdFlagSet(q.flags) THEN S_Cd ELSE <<>>)
    \o (IF opt.edns_client_subnet # <<>>
        THEN S_Edns \o opt.edns_client_subnet ELSE <<>>)

\* C11: the URL of every fetch is https://<configured DoH host>/resolve?
\* name=<escaped name>&type=<type>, then "&cd=true" when the CD bit is set,
\* then "&edns_client_subnet=<subnet>" exactly when the configured subnet is
\* not empty, the same for every query.
C11_UrlShape ==
  \A f \in fetches : f.url = DescribedUrl(queries[f.g_qid])

\* the override and the list it points to
OverrideItems ==
  IF app_resolv = NULL THEN <<>> ELSE slists[app_resolv].items

\* C12: a handler other than dns_poll_cb that returns to the loop leaves
\* app.resolv and the list cells as they were, and a fetch is issued with
\* the value app.resolv has at that step.
C12_OnlyPollerWritesOverride ==
  [][ /\ (pc' = "loop" /\ polls' = polls) =>
           (app_resolv' = app_resolv /\ slists' = slists)
      /\ \A f \in fetches' \ fetches :
           f.resolv = app_resolv /\ f.g_items = OverrideItems ]_vars

\* with an override installed, one query was answered and another is in
\* flight with the installed list
C12_Witness ==
  /\ InLoop
  /\ app_resolv # NULL
  /\ sent # {}
  /\ \E f \in fetches : f.resolv = app_resolv /\ f.g_items = OverrideItems

\* a comes before b in log
Before(log, a, b) ==
  \E i, j \in 1..Len(log) : i < j /\ log[i] = a /\ log[j] = b

Logged(log, a) == \E i \in 1..Len(log) : log[i] = a

\* the queries that got neither a completion nor a reply
Abandoned ==
  {qid \in 1..Len(queries) :
     RepliesTo(qid) = {} /\ \A c \in done : c.qid # qid}

\* C13: once ev_run has returned, main releases the poller before it stops
\* the DNS server and the HTTPS client and leaves with exit code 0, and
\* from the step that stops the loop on no query is dispatched and no reply
\* is sent, whatever is still in flight.
C13_Shutdown ==
  [][ /\ pc = "after_loop" =>
           /\ pc' = "exited"
           /\ exit_code' = <<0>>
           /\ Before(mainlog', "dns_poller_cleanup", "dns_server_cleanup")
           /\ Before(mainlog', "dns_poller_cleanup", "https_client_cleanup")
      /\ (pc' = "after_loop" \/ pc \in {"after_loop", "exited"}) =>
           /\ queries' = queries
           /\ calls' = calls
           /\ sent' = sent
           /\ done' = done ]_vars

\* main has returned 0 after one query was answered and while another was
\* still in flight
C13_Witness ==
  /\ pc = "exited"
  /\ exit_code = <<EXIT_SUCCESS>>
  /\ Logged(mainlog, "https_client_cleanup")
  /\ sent # {}
  /\ Abandoned # {}

\* a query can be dispatched now, given memory for its context
CanDispatch == ENABLED (\E q \in Queries : dns_server_cb(q, FirstFree))

\* every fetch in flight can be completed now
CanComplete ==
  \A f \in fetches : ENABLED (\E buf \in Bodies : https_resp_cb(f, buf, TRUE))

\* C14: the step in which SIGPIPE is handled leaves the loop running and
\* the override, the pending requests, the fetches in flight and the
\* replies sent as they were; right after it a query can be dispatched and
\* every fetch in flight completed; the loop is left only by the SIGINT
\* step.
C14_SigpipeIgnored ==
  /\ [](after_sigpipe =>
          /\ InLoop
          /\ CanComplete
          /\ Len(queries) < MaxQueries => CanDispatch)
  /\ [][ /\ after_sigpipe' =>
             /\ pc' = pc
             /\ app_resolv' = app_resolv /\ slists' = slists
             /\ reqs' = reqs /\ fetches' = fetches
             /\ sent' = sent /\ queries' = queries /\ done' = done
         /\ (pc = "loop" /\ pc' = "after_loop") => sigint_cb ]_vars

\* SIGPIPE arrived while a request was pending and an override installed,
\* and the loop runs on with both
C14_Witness ==
  /\ after_sigpipe
  /\ InLoop
  /\ app_resolv # NULL
  /\ \E f \in fetches : reqs[f.data].alive
  /\ sent # {}

\* C15: with a command line that does not parse, the process is at its
\* start or has exited with code 1, having initialised no HTTPS client, no
\* DNS server and no poller and served no query; a process that has left
\* main with an accepted command line returned 0.
C15_ExitCodes ==
  /\ (~argv_ok /\ pc # "start") =>
       /\ pc = "exited"
       /\ exit_code = <<1>>
       /\ ~Logged(mainlog, "https_client_init")
       /\ ~Logged(mainlog, "dns_server_init")
       /\ ~Logged(mainlog, "dns_poller_init")
       /\ queries = <<>> /\ sent = {} /\ calls = NoCalls
  /\ (argv_ok /\ pc = "exited") =>
       /\ exit_code = <<0>>
       /\ Logged(mainlog, "sigint")
  /\ exit_code # <<>> <=> pc = "exited"

\* the usage exit
C15_Witness ==
  /\ ~argv_ok
  /\ pc = "exited"
  /\ exit_code = <<ExitUsage>>
  /\ mainlog = <<"options_show_usage">>

\* C16: with the privilege drop configured, the loop is entered and queries
\* are served only with group and user id both set; a setgid or setuid that
\* failed has ended the process; setgid comes after dns_server_init (the
\* bind) and setuid after setgid.
C16_PrivilegeDrop ==
  opt.daemonize =>
    /\ (pc \in {"ready", "loop", "after_loop"} \/ queries # <<>>) =>
         cred = "dropped"
    /\ (Logged(mainlog, "setgid") /\ cred = "initial") => pc = "aborted"
    /\ (Logged(mainlog, "setuid") /\ cred # "dropped") => pc = "aborted"
    /\ Logged(mainlog, "setgid") => Before(mainlog, "dns_server_init", "setgid")
    /\ Logged(mainlog, "setuid") => Before(mainlog, "setgid", "setuid")

\* setgid succeeded, setuid failed: the process is gone before any query
C16_Witness ==
  /\ opt.daemonize
  /\ pc = "aborted"
  /\ cred = "gid_set"
  /\ Logged(mainlog, "setuid")
  /\ ~Logged(mainlog, "dns_poller_init")
  /\ queries = <<>>

\* C17: every query received has caused one request_t allocation and one
\* https_client_fetch call, every dns_server_respond call is one reply of
\* its own, no query has more than one reply, and every reply belongs to a
\* query received.
C17_OneFetchOneReplyPerQuery ==
  /\ calls.alloc = Len(queries)
  /\ calls.fetch = Len(queries)
  /\ calls.respond = Cardinality(sent)
  /\ \A qid \in 1..Len(queries) : Cardinality(RepliesTo(qid)) <= 1
  /\ \A r \in sent : r.g_qid \in 1..Len(queries)

\* C18: a fetch issued before the first dns_poll_cb call carries a NULL
\* override, and as long as no dns_poll_cb call has come a query can be
\* dispatched and a fetch in flight completed.
C18_DispatchBeforeBootstrap ==
  /\ []((InLoop /\ polls = 0) =>
          /\ CanComplete
          /\ Len(queries) < MaxQueries => CanDispatch)
  /\ [][ \A f \in fetches' \ fetches :
           polls = 0 => f.resolv = NULL /\ f.g_items = <<>> ]_vars

\* before any dns_poll_cb call one query was answered and another is in
\* flight without an override
C18_Witness ==
  /\ InLoop
  /\ polls = 0
  /\ sent # {}
  /\ \E f \in fetches : f.resolv = NULL

S_Port443 == <<":", "4", "4", "3", ":">>

\* C19: app.resolv is NULL or points to a live list of exactly one entry,
\* "dns.google.com:443:" followed by the address of the latest dns_poll_cb
\* call; no other list is live; and while the loop runs app.resolv is what
\* the latest dns_poll_cb call installed.
C19_OverrideSingleEntry ==
  /\ app_resolv # NULL =>
       /\ slists[app_resolv].alive
       /\ slists[app_resolv].items =
            << H_Google \o S_Port443 \o ares_inet_ntop(last_addr) >>
  /\ \A a \in ListAddrs :
       /\ slists[a].alive => a = app_resolv
       /\ Len(slists[a].items) <= 1
  /\ (InLoop /\ polls > 0) => app_resolv = last_built

\* the second dns_poll_cb call replaced the first one's entry
C19_Witness ==
  /\ InLoop
  /\ polls = 2
  /\ app_resolv # NULL
  /\ slists[app_resolv].items = <<PollEntry(<<216, 58, 0, 14>>)>>
  /\ Cardinality({a \in ListAddrs : slists[a].alive}) = 1

=============================================================================
